---- MODULE Spec2Model ----
(***************************************************************************)
(* GEasy: the review ingestion of bruinwalk_scraper.py (BruinWalkEnhancer) *)
(* and the ranking query of app_sql.py, over the relational store          *)
(* courses / professors / sections / reviews.                              *)
(*                                                                         *)
(* Tables are sequences of rows in insertion order.  Strings that are only *)
(* compared for equality are TLA+ strings; dept and number, which the SQL  *)
(* also sorts, are small naturals standing for the rank of the string in   *)
(* lexicographic order.  The floats of the scraper (quality, workload) are *)
(* kept in tenths; the texts are kept by their length.                     *)
(***************************************************************************)
EXTENDS Integers, Sequences, FiniteSets, TLC

VARIABLES
    courses,      \* table courses(course_id, dept, number, title, ge_area)
    professors,   \* table professors(prof_id, name)
    sections,     \* table sections(section_id, course_id, prof_id, term, year)
    reviews,      \* table reviews(review_id, section_id, quality, workload, text)
    proc,         \* per writer: position and locals of enhance_existing_courses / _save_course_to_db
    hist,         \* history: what each writer has done so far (never read by the program)
    result,       \* the last answer of the ranking query, with its parameters
    fragment      \* a review fragment of a course page and what _parse_review_element made of it

store == <<courses, professors, sections, reviews>>
vars == <<courses, professors, sections, reviews, proc, hist, result, fragment>>

----------------------------------------------------------------------------
(* Bounds of the model *)

\* enhance_existing_courses(limit): the largest limit tried
MaxLimit == 2
\* the most kept reviews one course page yields
MaxKept == 2
\* the most kept reviews handed to a call of _save_course_to_db made on its own
MaxDirect == 1
\* the most kept reviews all the pages of one behaviour yield together
MaxRows == 3

(* Program constants *)

\* reviews.text is cut to 500 characters
TextLimit == 500
\* workload stored when none was extracted
DefaultWorkload == 5
\* the bounds of the stored quality and workload
MinRating == 1
MaxQuality == 5
MaxWorkload == 10

Procs == {1, 2}
ProfNames == {"Smith", "Lee"}

----------------------------------------------------------------------------
(* Helpers on sequences and tables *)

Range(s) == {s[i] : i \in DOMAIN s}

SetMax(S) == CHOOSE x \in S : \A y \in S : y <= x

Min2(a, b) == IF a <= b THEN a ELSE b
Max2(a, b) == IF a >= b THEN a ELSE b

\* SELECT MAX(id) + 1 FROM t ... fetchone()[0] or 1 : NULL on an empty table,
\* and Python's `or` also turns a computed 0 into 1
NextIdReuse(ids) == IF ids = {} THEN 1 ELSE SetMax(ids)
NextId(ids) ==
    IF ids = {} THEN 1
    ELSE IF SetMax(ids) + 1 = 0 THEN 1 ELSE SetMax(ids) + 1

CourseIds == {courses[i].course_id : i \in DOMAIN courses}
ProfIds == {professors[i].prof_id : i \in DOMAIN professors}
SectionIds == {sections[i].section_id : i \in DOMAIN sections}
ReviewIds == {reviews[i].review_id : i \in DOMAIN reviews}

----------------------------------------------------------------------------
(* Conversions of _save_course_to_db *)

\* Python int() of a non-negative or negative float kept in tenths: truncation toward zero
PyInt(t) == IF t >= 0 THEN t \div 10 ELSE -((-t) \div 10)

\* quality = max(1, min(5, int(review.get('quality', 3))))
StoredQualityNoFloor(q) == Min2(MaxQuality, PyInt(q))
StoredQuality(q) == Max2(MinRating, Min2(MaxQuality, PyInt(q)))

\* workload = max(1, min(10, int(w) if w > 0 else 5))
StoredWorkloadNoDefault(w) == Max2(MinRating, Min2(MaxWorkload, PyInt(w)))
StoredWorkload(w) ==
    Max2(MinRating, Min2(MaxWorkload, IF w > 0 THEN PyInt(w) ELSE DefaultWorkload))

\* review.get('text', '')[:500]
StoredText(len) == IF len > TextLimit THEN TextLimit ELSE len

----------------------------------------------------------------------------
(* The inputs: what a course page yields *)

\* the signals _parse_review_element can extract from one kept fragment
\* (quality in [0,5] and workload in [0,10], in tenths; 0 when nothing was extracted;
\* a fragment is kept only with quality > 0 or more than 10 characters of text)
KeptReviews ==
    { [professor |-> "Smith", quality |-> 0,  workload |-> 0,   text |-> 40,
       quarter |-> "", year |-> 2024],
      [professor |-> "Smith", quality |-> 45, workload |-> 30,  text |-> 72,
       quarter |-> "Fall", year |-> 2023],
      [professor |-> "Lee",   quality |-> 5,  workload |-> 5,   text |-> 5,
       quarter |-> "", year |-> 2024],
      [professor |-> "Lee",   quality |-> 50, workload |-> 100, text |-> 500,
       quarter |-> "Winter", year |-> 2022] }

\* course_data['reviews']: one to MaxKept kept reviews, within what is left of MaxRows
ReviewLists ==
    UNION { [1..n -> KeptReviews] : n \in 1..Min2(MaxKept, MaxRows - hist.handed) }

\* the (dept, number, ge_area) a direct call of _save_course_to_db is given:
\* a course of the store and one the store does not hold
DirectCourses ==
    { [dept |-> 1, number |-> 1, title |-> "", ge_area |-> "SA"],
      [dept |-> 2, number |-> 2, title |-> "", ge_area |-> "LS"] }

----------------------------------------------------------------------------
(* The store before ingestion: seeded by build_db.py from the CSV files *)

SeedCourses ==
    << [course_id |-> 1, dept |-> 1, number |-> 1, title |-> "T11", ge_area |-> "SA"],
       [course_id |-> 2, dept |-> 1, number |-> 2, title |-> "T12", ge_area |-> "SA"],
       [course_id |-> 4, dept |-> 2, number |-> 1, title |-> "T21", ge_area |-> "LS"] >>

\* a store with courses only, and one that already holds a reviewed section
SeedStores ==
    { [courses |-> SeedCourses, professors |-> << >>, sections |-> << >>, reviews |-> << >>],
      [courses |-> SeedCourses,
       professors |-> << [prof_id |-> 3, name |-> "Smith"] >>,
       sections |-> << [section_id |-> 2, course_id |-> 1, prof_id |-> 3,
                        term |-> "Fall", year |-> 2023] >>,
       reviews |-> << [review_id |-> 5, section_id |-> 2, quality |-> 4, workload |-> 4,
                       text |-> 30] >>] }

NoData == [dept |-> 0, number |-> 0, title |-> "", reviews |-> << >>]

IdleProc ==
    [pc |-> "idle", mode |-> "none", courses_df |-> << >>, idx |-> 0, enhanced_count |-> 0,
     course_data |-> NoData, ge_area |-> "", course_id |-> 0,
     professor_cache |-> << >>, next_prof_id |-> 0, next_section_id |-> 0,
     next_review_id |-> 0, ri |-> 0, raised |-> FALSE, failure |-> ""]

NoResult == [called |-> FALSE]
\* no fragment is being parsed
NoFragment == [parsed |-> FALSE]

\* the sizes of the tables when the call of _save_course_to_db in progress began
\* (history only; zero outside a call)
NoCall == [sections |-> 0, reviews |-> 0]
Called == [sections |-> Len(sections), reviews |-> Len(reviews)]

InitHist ==
    [allocs |-> << >>,
     start |-> [p \in Procs |-> [prof |-> 0, section |-> 0, review |-> 0]],
     resolved |-> [p \in Procs |-> << >>],
     persisted |-> [p \in Procs |-> 0],
     saves |-> [p \in Procs |-> 0],
     handed |-> 0,
     call |-> [p \in Procs |-> NoCall]]

Init ==
    /\ \E s \in SeedStores :
          /\ courses = s.courses
          /\ professors = s.professors
          /\ sections = s.sections
          /\ reviews = s.reviews
    /\ proc = [p \in Procs |-> IdleProc]
    /\ hist = InitHist
    /\ result = NoResult
    /\ fragment = NoFragment

----------------------------------------------------------------------------
(* enhance_existing_courses *)

MaxOr0(S) == IF S = {} THEN 0 ELSE SetMax(S)

\* the maxima of the store when a run starts (history only)
StartMax == [prof |-> MaxOr0(ProfIds), section |-> MaxOr0(SectionIds), review |-> MaxOr0(ReviewIds)]

\* SELECT DISTINCT dept, number, title, ge_area FROM courses
CourseTuples ==
    { [dept |-> courses[i].dept, number |-> courses[i].number, title |-> courses[i].title,
       ge_area |-> courses[i].ge_area] : i \in DOMAIN courses }

\* ORDER BY dept, number
DeptNumberLeq(a, b) == a.dept < b.dept \/ (a.dept = b.dept /\ a.number <= b.number)

\* every arrangement of the set S the ORDER BY allows
OrderedByDeptNumber(S) ==
    { s \in [1..Cardinality(S) -> S] :
        /\ \A i, j \in DOMAIN s : i # j => s[i] # s[j]
        /\ \A i, j \in DOMAIN s : i < j => DeptNumberLeq(s[i], s[j]) }

\* LIMIT n
Limit(s, n) == SubSeq(s, 1, Min2(n, Len(s)))

\* con.execute("SELECT DISTINCT ... ORDER BY dept, number LIMIT ?", [limit]); enhanced_count = 0
EnhanceStart(p) ==
    /\ proc[p].pc = "idle"
    /\ \E limit \in 1..MaxLimit, df \in OrderedByDeptNumber(CourseTuples) :
          proc' = [proc EXCEPT ![p] =
                      [@ EXCEPT !.mode = "enhance", !.courses_df = Limit(df, limit), !.idx = 1,
                                !.enhanced_count = 0,
                                !.pc = IF Limit(df, limit) = << >> THEN "done" ELSE "fetch"]]
    /\ hist' = [hist EXCEPT !.start[p] = StartMax]
    /\ UNCHANGED <<store, result, fragment>>

\* after one course of the loop: the next course, or con.close(); return enhanced_count
AfterCourse(w) ==
    [w EXCEPT !.idx = @ + 1, !.pc = IF w.idx + 1 > Len(w.courses_df) THEN "done" ELSE "fetch",
              !.course_data = NoData, !.ge_area = "", !.failure = ""]

\* the ways get_course_reviews comes to return None: response.status_code == 404;
\* requests.RequestException (from get or raise_for_status); any other Exception
\* while the page is parsed; total_reviews == 0
FetchFailures == {"not_found", "request_error", "parse_error", "no_reviews"}

\* bruinwalk_data = self.get_course_reviews(dept, number) returns None
FetchFails(p) ==
    /\ proc[p].pc = "fetch"
    /\ \E f \in FetchFailures :
          proc' = [proc EXCEPT ![p] = [@ EXCEPT !.failure = f, !.pc = "no_data"]]
    /\ UNCHANGED <<store, hist, result, fragment>>

\* if bruinwalk_data and bruinwalk_data['reviews'] fails: the else branch logs a
\* warning, and the loop goes on
FetchNoneCounted(p) ==
    /\ proc[p].pc = "no_data"
    /\ proc' = [proc EXCEPT ![p] = AfterCourse([@ EXCEPT !.enhanced_count = @ + 1])]
    /\ UNCHANGED <<store, hist, result, fragment>>
FetchNone(p) ==
    /\ proc[p].pc = "no_data"
    /\ proc' = [proc EXCEPT ![p] = AfterCourse(@)]
    /\ UNCHANGED <<store, hist, result, fragment>>

\* get_course_reviews returns course_data with at least one kept review:
\* _save_course_to_db(bruinwalk_data, course['ge_area'], con) is called
FetchData(p) ==
    /\ proc[p].pc = "fetch"
    /\ \E revs \in ReviewLists :
          LET c == proc[p].courses_df[proc[p].idx] IN
          /\ proc' = [proc EXCEPT ![p] =
                      [@ EXCEPT !.course_data = [dept |-> c.dept, number |-> c.number,
                                                 title |-> "", reviews |-> revs],
                                !.ge_area = c.ge_area, !.pc = "sel_course"]]
          /\ hist' = [hist EXCEPT !.saves[p] = @ + 1, !.handed = @ + Len(revs),
                                  !.call[p] = Called]
    /\ UNCHANGED <<store, result, fragment>>

\* _save_course_to_db called on its own, for a course the store may not hold
IngestStart(p) ==
    /\ proc[p].pc = "idle"
    /\ \E c \in DirectCourses, revs \in {l \in ReviewLists : Len(l) <= MaxDirect} :
          /\ proc' = [proc EXCEPT ![p] =
                      [@ EXCEPT !.mode = "direct",
                                !.course_data = [dept |-> c.dept, number |-> c.number,
                                                 title |-> c.title, reviews |-> revs],
                                !.ge_area = c.ge_area, !.pc = "sel_course"]]
          /\ hist' = [hist EXCEPT !.start[p] = StartMax, !.saves[p] = @ + 1,
                                  !.handed = @ + Len(revs), !.call[p] = Called]
    /\ UNCHANGED <<store, result, fragment>>

\* the caller hands the same course_data to _save_course_to_db a second time
IngestAgain(p) ==
    /\ proc[p].pc = "done"
    /\ proc[p].mode = "direct"
    /\ hist.saves[p] = 1
    /\ hist.handed + Len(proc[p].course_data.reviews) <= MaxRows
    /\ proc' = [proc EXCEPT ![p] = [@ EXCEPT !.pc = "sel_course"]]
    /\ hist' = [hist EXCEPT !.saves[p] = @ + 1,
                            !.handed = @ + Len(proc[p].course_data.reviews),
                            !.call[p] = Called]
    /\ UNCHANGED <<store, result, fragment>>

----------------------------------------------------------------------------
(* _save_course_to_db, one store statement per step *)

W(p) == proc[p]

\* one more entry of the history of issued inserts: the id, and whether the insert went through
Logged(p, kind, id, ok) ==
    [hist EXCEPT !.allocs = Append(@, [kind |-> kind, id |-> id, proc |-> p, ok |-> ok])]

\* SELECT course_id FROM courses WHERE dept = ? AND number = ? ... fetchone()
SelectCourse(p) ==
    /\ W(p).pc = "sel_course"
    /\ LET found == { i \in DOMAIN courses : /\ courses[i].dept = W(p).course_data.dept
                                             /\ courses[i].number = W(p).course_data.number }
       IN IF found # {}
          THEN \E i \in found :
                  proc' = [proc EXCEPT ![p] = [@ EXCEPT !.course_id = courses[i].course_id,
                                                        !.pc = "load_cache"]]
          ELSE proc' = [proc EXCEPT ![p] = [@ EXCEPT !.pc = "alloc_course"]]
    /\ UNCHANGED <<store, hist, result, fragment>>

\* course_id = SELECT MAX(course_id) + 1 FROM courses ... or 1
AllocCourse(p) ==
    /\ W(p).pc = "alloc_course"
    /\ proc' = [proc EXCEPT ![p] = [@ EXCEPT !.course_id = NextId(CourseIds), !.pc = "ins_course"]]
    /\ UNCHANGED <<store, hist, result, fragment>>

\* INSERT INTO courses (course_id, dept, number, title, ge_area)
InsertCourse(p) ==
    /\ W(p).pc = "ins_course"
    /\ courses' = Append(courses, [course_id |-> W(p).course_id, dept |-> W(p).course_data.dept,
                                   number |-> W(p).course_data.number,
                                   title |-> W(p).course_data.title, ge_area |-> W(p).ge_area])
    /\ proc' = [proc EXCEPT ![p] = [@ EXCEPT !.pc = "load_cache"]]
    /\ hist' = Logged(p, "course", W(p).course_id, TRUE)
    /\ UNCHANGED <<professors, sections, reviews, result, fragment>>

\* professor_cache = {}; for prof_id, name in SELECT prof_id, name FROM professors: cache[name] = prof_id
\* (the rows come in no stated order: with two rows of one name either id may stay)
CachesOf(profs) ==
    LET names == {profs[i].name : i \in DOMAIN profs}
    IN { f \in [names -> {profs[i].prof_id : i \in DOMAIN profs}] :
            \A n \in names : \E i \in DOMAIN profs : profs[i].name = n /\ profs[i].prof_id = f[n] }

LoadCache(p) ==
    /\ W(p).pc = "load_cache"
    /\ \E f \in CachesOf(professors) :
          proc' = [proc EXCEPT ![p] = [@ EXCEPT !.professor_cache = f, !.pc = "next_prof"]]
    /\ UNCHANGED <<store, hist, result, fragment>>

\* next_prof_id = SELECT MAX(prof_id) + 1 FROM professors ... or 1
ReadNextProf(p) ==
    /\ W(p).pc = "next_prof"
    /\ proc' = [proc EXCEPT ![p] = [@ EXCEPT !.next_prof_id = NextId(ProfIds), !.pc = "next_section"]]
    /\ UNCHANGED <<store, hist, result, fragment>>

\* next_section_id = SELECT MAX(section_id) + 1 FROM sections ... or 1
ReadNextSection(p) ==
    /\ W(p).pc = "next_section"
    /\ proc' = [proc EXCEPT ![p] = [@ EXCEPT !.next_section_id = NextId(SectionIds),
                                             !.pc = "next_review"]]
    /\ UNCHANGED <<store, hist, result, fragment>>

\* next_review_id = SELECT MAX(review_id) + 1 FROM reviews ... or 1; the loop starts
ReadNextReview(p) ==
    /\ W(p).pc = "next_review"
    /\ proc' = [proc EXCEPT ![p] = [@ EXCEPT !.next_review_id = NextId(ReviewIds), !.ri = 1,
                                             !.pc = "resolve"]]
    /\ UNCHANGED <<store, hist, result, fragment>>

Review(p) == W(p).course_data.reviews[W(p).ri]

\* if prof_name not in professor_cache
CacheMissAlways(cache, name) == TRUE
CacheMiss(cache, name) == name \notin DOMAIN cache

\* for review in course_data['reviews']: prof_name = review['professor'];
\* a cached name goes on to current_prof_id = professor_cache[prof_name]
ResolveProfessor(p) ==
    /\ W(p).pc = "resolve"
    /\ IF CacheMiss(W(p).professor_cache, Review(p).professor)
       THEN /\ proc' = [proc EXCEPT ![p] = [@ EXCEPT !.pc = "ins_prof"]]
            /\ hist' = hist
       ELSE /\ proc' = [proc EXCEPT ![p] = [@ EXCEPT !.pc = "ins_section"]]
            /\ hist' = [hist EXCEPT !.resolved[p] =
                           Append(@, <<Review(p).professor,
                                       W(p).professor_cache[Review(p).professor]>>)]
    /\ UNCHANGED <<store, result, fragment>>

\* INSERT INTO professors (prof_id, name); professor_cache[prof_name] = next_prof_id; next_prof_id += 1
InsertProfessor(p) ==
    /\ W(p).pc = "ins_prof"
    /\ professors' = Append(professors, [prof_id |-> W(p).next_prof_id, name |-> Review(p).professor])
    /\ proc' = [proc EXCEPT ![p] =
                   [@ EXCEPT !.professor_cache =
                                 [n \in DOMAIN @ \cup {Review(p).professor} |->
                                     IF n = Review(p).professor THEN W(p).next_prof_id ELSE @[n]],
                             !.next_prof_id = @ + 1, !.pc = "ins_section"]]
    /\ hist' = [Logged(p, "prof", W(p).next_prof_id, TRUE) EXCEPT !.resolved[p] =
                   Append(@, <<Review(p).professor, W(p).next_prof_id>>)]
    /\ UNCHANGED <<courses, sections, reviews, result, fragment>>

\* INSERT INTO sections (section_id, course_id, prof_id, term, year)
InsertSectionOnce(p) ==
    /\ W(p).pc = "ins_section"
    /\ sections' =
          IF \E i \in DOMAIN sections :
                 /\ sections[i].course_id = W(p).course_id
                 /\ sections[i].prof_id = W(p).professor_cache[Review(p).professor]
                 /\ sections[i].term = Review(p).quarter /\ sections[i].year = Review(p).year
          THEN sections
          ELSE Append(sections, [section_id |-> W(p).next_section_id,
                                 course_id |-> W(p).course_id,
                                 prof_id |-> W(p).professor_cache[Review(p).professor],
                                 term |-> Review(p).quarter, year |-> Review(p).year])
    /\ proc' = [proc EXCEPT ![p] = [@ EXCEPT !.pc = "ins_review"]]
    /\ hist' = Logged(p, "section", W(p).next_section_id, TRUE)
    /\ UNCHANGED <<courses, professors, reviews, result, fragment>>
InsertSection(p) ==
    /\ W(p).pc = "ins_section"
    /\ sections' = Append(sections, [section_id |-> W(p).next_section_id,
                                     course_id |-> W(p).course_id,
                                     prof_id |-> W(p).professor_cache[Review(p).professor],
                                     term |-> Review(p).quarter, year |-> Review(p).year])
    /\ proc' = [proc EXCEPT ![p] = [@ EXCEPT !.pc = "ins_review"]]
    /\ hist' = Logged(p, "section", W(p).next_section_id, TRUE)
    /\ UNCHANGED <<courses, professors, reviews, result, fragment>>

\* the section_id the review row is given
ReviewSectionOther(w) == w.next_section_id + 1
ReviewSection(w) == w.next_section_id

\* INSERT INTO reviews (review_id, section_id, quality, workload, text);
\* next_section_id += 1; next_review_id += 1; then the next review, or the function returns
InsertReviewOrReplace(p) ==
    /\ W(p).pc = "ins_review"
    /\ reviews' = [i \in 1..Max2(1, Len(reviews)) |->
                      IF i < Len(reviews) THEN reviews[i]
                      ELSE [review_id |-> W(p).next_review_id,
                            section_id |-> ReviewSection(W(p)),
                            quality |-> StoredQuality(Review(p).quality),
                            workload |-> StoredWorkload(Review(p).workload),
                            text |-> StoredText(Review(p).text)]]
    /\ proc' = [proc EXCEPT ![p] =
                   [@ EXCEPT !.next_section_id = @ + 1, !.next_review_id = @ + 1, !.ri = @ + 1,
                             !.pc = IF W(p).ri + 1 > Len(W(p).course_data.reviews)
                                    THEN "return" ELSE "resolve"]]
    /\ hist' = Logged(p, "review", W(p).next_review_id, TRUE)
    /\ UNCHANGED <<courses, professors, sections, result, fragment>>
InsertReview(p) ==
    /\ W(p).pc = "ins_review"
    /\ reviews' = Append(reviews, [review_id |-> W(p).next_review_id,
                                   section_id |-> ReviewSection(W(p)),
                                   quality |-> StoredQuality(Review(p).quality),
                                   workload |-> StoredWorkload(Review(p).workload),
                                   text |-> StoredText(Review(p).text)])
    /\ proc' = [proc EXCEPT ![p] =
                   [@ EXCEPT !.next_section_id = @ + 1, !.next_review_id = @ + 1, !.ri = @ + 1,
                             !.pc = IF W(p).ri + 1 > Len(W(p).course_data.reviews)
                                    THEN "return" ELSE "resolve"]]
    /\ hist' = Logged(p, "review", W(p).next_review_id, TRUE)
    /\ UNCHANGED <<courses, professors, sections, result, fragment>>

\* the id an insert about to be issued carries
PendingId(w) ==
    CASE w.pc = "ins_course" -> w.course_id
      [] w.pc = "ins_prof" -> w.next_prof_id
      [] w.pc = "ins_section" -> w.next_section_id
      [] w.pc = "ins_review" -> w.next_review_id

PendingKind(w) ==
    CASE w.pc = "ins_course" -> "course"
      [] w.pc = "ins_prof" -> "prof"
      [] w.pc = "ins_section" -> "section"
      [] w.pc = "ins_review" -> "review"

\* an INSERT raises: nothing is written, and except Exception as e: logger.error(...)
\* ends the function; nothing is rolled back
WriteFailsUncaught(p) ==
    /\ W(p).pc \in {"ins_course", "ins_prof", "ins_section", "ins_review"}
    /\ proc' = [proc EXCEPT ![p] = [@ EXCEPT !.raised = TRUE, !.pc = "done"]]
    /\ hist' = Logged(p, PendingKind(W(p)), PendingId(W(p)), FALSE)
    /\ UNCHANGED <<store, result, fragment>>
WriteFails(p) ==
    /\ W(p).pc \in {"ins_course", "ins_prof", "ins_section", "ins_review"}
    /\ proc' = [proc EXCEPT ![p] = [@ EXCEPT !.raised = TRUE, !.pc = "return"]]
    /\ hist' = Logged(p, PendingKind(W(p)), PendingId(W(p)), FALSE)
    /\ UNCHANGED <<store, result, fragment>>

\* the locals of _save_course_to_db are gone once it returns
Returned(w) ==
    [w EXCEPT !.course_id = 0, !.professor_cache = << >>, !.next_prof_id = 0,
              !.next_section_id = 0, !.next_review_id = 0, !.ri = 0, !.raised = FALSE]

\* _save_course_to_db returns (None, also after an exception); in the loop of
\* enhance_existing_courses: enhanced_count += 1, then the next course
Return(p) ==
    /\ W(p).pc = "return"
    /\ proc' = [proc EXCEPT ![p] =
                   IF W(p).mode = "enhance"
                   THEN AfterCourse([Returned(@) EXCEPT !.enhanced_count = @ + 1])
                   ELSE [Returned(@) EXCEPT !.pc = "done"]]
    /\ hist' = [hist EXCEPT !.persisted[p] = IF W(p).raised THEN @ ELSE @ + 1,
                            !.call[p] = NoCall]
    /\ UNCHANGED <<store, result, fragment>>

----------------------------------------------------------------------------
(* One writer: a run of enhance_existing_courses, or a call of _save_course_to_db *)

\* the one writer: the first of the processes
Writer == CHOOSE p \in Procs : \A q \in Procs : p <= q

Next ==
    \/ EnhanceStart(Writer)
    \/ FetchFails(Writer)
    \/ FetchNone(Writer)
    \/ FetchData(Writer)
    \/ IngestStart(Writer)
    \/ IngestAgain(Writer)
    \/ SelectCourse(Writer)
    \/ AllocCourse(Writer)
    \/ InsertCourse(Writer)
    \/ LoadCache(Writer)
    \/ ReadNextProf(Writer)
    \/ ReadNextSection(Writer)
    \/ ReadNextReview(Writer)
    \/ ResolveProfessor(Writer)
    \/ InsertProfessor(Writer)
    \/ InsertSection(Writer)
    \/ InsertReview(Writer)
    \/ WriteFails(Writer)
    \/ Return(Writer)

Spec == Init /\ [][Next]_vars

----------------------------------------------------------------------------
(* Two writers: two calls of _save_course_to_db on one store, statement by statement *)

NextConc ==
    \E p \in Procs :
        \/ IngestStart(p)
        \/ SelectCourse(p)
        \/ AllocCourse(p)
        \/ InsertCourse(p)
        \/ LoadCache(p)
        \/ ReadNextProf(p)
        \/ ReadNextSection(p)
        \/ ReadNextReview(p)
        \/ ResolveProfessor(p)
        \/ InsertProfessor(p)
        \/ InsertSection(p)
        \/ InsertReview(p)
        \/ WriteFails(p)
        \/ Return(p)

SpecConc == Init /\ [][NextConc]_vars

----------------------------------------------------------------------------
(* Properties of ingestion *)

Allocs == hist.allocs

\* C1: referential integrity. After any sequence of ingestions of one writer, also
\* ones cut short by a failing insert, every review row references an existing
\* section row, and every section row an existing course row and an existing
\* professor row.
C1_ReferentialIntegrity ==
    /\ \A i \in DOMAIN reviews : reviews[i].section_id \in SectionIds
    /\ \A i \in DOMAIN sections : /\ sections[i].course_id \in CourseIds
                                  /\ sections[i].prof_id \in ProfIds

\* an insert failed in one course of the run, and a later course of the run wrote a review
C1_Witness ==
    /\ W(Writer).pc = "done"
    /\ \E i, j \in DOMAIN Allocs : i < j /\ ~Allocs[i].ok /\ Allocs[j].ok /\ Allocs[j].kind = "review"

C3_NoSharedId ==
    \A i, j \in DOMAIN Allocs :
        (i < j /\ Allocs[i].ok /\ Allocs[i].proc # Allocs[j].proc
               /\ Allocs[i].kind = Allocs[j].kind)
           => Allocs[i].id # Allocs[j].id

\* the reviews of the page the loop of the call in progress has passed already
Passed(p) == IF W(p).ri = 0 THEN 0 ELSE W(p).ri - 1

\* the row of the k-th review of the page, for k up to Passed(p): one writer's rows
\* are the last of the table
RowOf(p, k) == reviews[Len(reviews) - Passed(p) + k]

C5_ResolveIdempotent ==
    /\ \A p \in Procs : \A i, j \in DOMAIN hist.resolved[p] :
          hist.resolved[p][i][1] = hist.resolved[p][j][1]
             => hist.resolved[p][i][2] = hist.resolved[p][j][2]
    /\ \A p \in Procs : \A i \in DOMAIN hist.resolved[p] :
          \E k \in DOMAIN professors : /\ professors[k].name = hist.resolved[p][i][1]
                                       /\ professors[k].prof_id = hist.resolved[p][i][2]
    /\ \A i, j \in DOMAIN professors : i # j => professors[i].name # professors[j].name

\* a name the store did not hold, resolved in two courses of one run of enhance
C5_Witness ==
    /\ W(Writer).mode = "enhance" /\ hist.saves[Writer] >= 2 /\ W(Writer).pc = "done"
    /\ \E i, j \in DOMAIN hist.resolved[Writer] :
          /\ i < j
          /\ hist.resolved[Writer][i][1] = "Lee" /\ hist.resolved[Writer][j][1] = "Lee"
    /\ Cardinality({i \in DOMAIN Allocs : Allocs[i].kind = "review" /\ Allocs[i].ok}) = 2

\* C6: enhance returns the number of courses whose kept reviews were all written:
\* a course whose save raised is not counted.
C6_CountIsPersisted ==
    (W(Writer).pc = "done" /\ W(Writer).mode = "enhance")
       => W(Writer).enhanced_count = hist.persisted[Writer]

----------------------------------------------------------------------------
(* The ranking of app_sql.py.  Means are exact fractions sum/count; a reported  *)
(* value is ROUND(x, 2), kept in hundredths.                                    *)

\* ROUND(num/den, 2) for num >= 0, den > 0, in hundredths (half rounds up)
Round2(num, den) == (200 * num + den) \div (2 * den)

\* FROM courses c JOIN sections s JOIN professors p JOIN reviews r ... WHERE c.ge_area = ?
JoinRows(area) ==
    { t \in (DOMAIN courses) \X (DOMAIN sections) \X (DOMAIN professors) \X (DOMAIN reviews) :
        /\ sections[t[2]].course_id = courses[t[1]].course_id
        /\ professors[t[3]].prof_id = sections[t[2]].prof_id
        /\ reviews[t[4]].section_id = sections[t[2]].section_id
        /\ courses[t[1]].ge_area = area }

\* GROUP BY c.course_id, c.dept, c.number, c.title, c.ge_area, p.name
GroupKey(t) ==
    [course_id |-> courses[t[1]].course_id, dept |-> courses[t[1]].dept,
     number |-> courses[t[1]].number, title |-> courses[t[1]].title,
     ge_area |-> courses[t[1]].ge_area, professor |-> professors[t[3]].name]

RECURSIVE SumQuality(_)
SumQuality(T) ==
    IF T = {} THEN 0
    ELSE LET t == CHOOSE x \in T : TRUE IN reviews[t[4]].quality + SumQuality(T \ {t})

RECURSIVE SumWorkload(_)
SumWorkload(T) ==
    IF T = {} THEN 0
    ELSE LET t == CHOOSE x \in T : TRUE IN reviews[t[4]].workload + SumWorkload(T \ {t})

\* course_stats before HAVING: per group COUNT(r.review_id), and the sums AVG divides
GroupStats(area) ==
    { LET T == {t \in JoinRows(area) : GroupKey(t) = k}
      IN [key |-> k, review_count |-> Cardinality(T),
          sum_quality |-> SumQuality(T), sum_workload |-> SumWorkload(T)] :
      k \in {GroupKey(t) : t \in JoinRows(area)} }

\* HAVING COUNT(r.review_id) >= ?
HavingNoMinimum(g, min_reviews) == TRUE
Having(g, min_reviews) == g.review_count >= min_reviews

\* WHERE avg_quality >= ? AND avg_workload <= ?   (min_q in tenths)
WhereQualityOnly(g, min_q, max_w) == 10 * g.sum_quality >= min_q * g.review_count
Where(g, min_q, max_w) ==
    /\ 10 * g.sum_quality >= min_q * g.review_count
    /\ g.sum_workload <= max_w * g.review_count

\* score = AVG(quality) * 0.7 + (11 - AVG(workload)) * 0.3, as the fraction
\* (7 * sum_quality + 3 * (11 * count - sum_workload)) / (10 * count)
ScoreNum(g) == 7 * g.sum_quality + 3 * (11 * g.review_count - g.sum_workload)
ScoreDen(g) == 10 * g.review_count

\* SELECT dept || ' ' || number, title, professor, review_count,
\*        ROUND(avg_quality, 2), ROUND(avg_workload, 2), ROUND(score, 2)
OutputRow(g) ==
    [dept |-> g.key.dept, number |-> g.key.number, title |-> g.key.title,
     professor |-> g.key.professor, review_count |-> g.review_count,
     avg_quality |-> Round2(g.sum_quality, g.review_count),
     avg_workload |-> Round2(g.sum_workload, g.review_count),
     score |-> Round2(ScoreNum(g), ScoreDen(g))]

\* ORDER BY score DESC, avg_quality DESC: the names are the output columns, the
\* rounded values; a may stand before b
OrderByScoreOnly(a, b) == a.score >= b.score
OrderBy(a, b) == a.score > b.score \/ (a.score = b.score /\ a.avg_quality >= b.avg_quality)

\* every arrangement of the rows of the groups in G the ORDER BY allows
Ranked(G) ==
    { [i \in DOMAIN s |-> OutputRow(s[i])] :
        s \in { s \in [1..Cardinality(G) -> G] :
                  /\ \A i, j \in DOMAIN s : i # j => s[i] # s[j]
                  /\ \A i, j \in DOMAIN s : i < j => OrderBy(OutputRow(s[i]), OutputRow(s[j])) } }

\* the query run when review_count > 0: the answers it may give
RankingQuery(area, min_reviews, min_q, max_w, top_n) ==
    { Limit(s, top_n) :
        s \in Ranked({ g \in GroupStats(area) : Having(g, min_reviews) /\ Where(g, min_q, max_w) }) }

\* SELECT DISTINCT dept || ' ' || number, title, 'No reviews available', 0, 0.0, 0.0, 0.0
\* FROM courses c WHERE c.ge_area = ?
FallbackRow(c) ==
    [dept |-> c.dept, number |-> c.number, title |-> c.title,
     professor |-> "No reviews available", review_count |-> 0,
     avg_quality |-> 0, avg_workload |-> 0, score |-> 0]

\* ... ORDER BY c.dept, c.number LIMIT ?
FallbackQuery(area, top_n) ==
    { Limit(s, top_n) :
        s \in OrderedByDeptNumber({ FallbackRow(courses[i]) :
                                      i \in {j \in DOMAIN courses : courses[j].ge_area = area} }) }

\* check_data_status: review_count = SELECT COUNT(*) FROM reviews; if review_count > 0
UseRankingAlways(review_count) == TRUE
UseRanking(review_count) == review_count > 0

\* SELECT DISTINCT ge_area FROM courses WHERE ge_area IS NOT NULL AND ge_area != '':
\* the areas the selectbox offers
OfferedAreas == {courses[i].ge_area : i \in DOMAIN courses} \ {""}

\* the sliders: Min Quality (tenths), Max Workload, Min Reviews, Results to Show
MinQualityChoices == {25, 40}
MaxWorkloadChoices == {4, 8}
MinReviewsChoices == {1, 2}
TopNChoices == {1, 20}

\* the main query of the page: the answers con.execute(query, [...]).df() may give
MainQuery(area, min_reviews, min_q, max_w, top_n) ==
    IF UseRanking(Len(reviews))
    THEN RankingQuery(area, min_reviews, min_q, max_w, top_n)
    ELSE FallbackQuery(area, top_n)

\* the page is run with the filters the user has chosen (if course_count == 0: st.stop())
Rank ==
    /\ ~result.called
    /\ Len(courses) > 0
    /\ \E area \in OfferedAreas, min_q \in MinQualityChoices, max_w \in MaxWorkloadChoices,
          min_reviews \in MinReviewsChoices, top_n \in TopNChoices :
          \E rows \in MainQuery(area, min_reviews, min_q, max_w, top_n) :
             result' = [called |-> TRUE, area |-> area, min_q |-> min_q, max_w |-> max_w,
                        min_reviews |-> min_reviews, top_n |-> top_n,
                        ranked |-> UseRanking(Len(reviews)), rows |-> rows]
    /\ UNCHANGED <<store, proc, hist, fragment>>

\* the page is run again with the same filters (the script runs anew on every interaction)
Rerun ==
    /\ result.called
    /\ Len(courses) > 0
    /\ \E rows \in MainQuery(result.area, result.min_reviews, result.min_q, result.max_w,
                              result.top_n) :
          result' = [result EXCEPT !.ranked = UseRanking(Len(reviews)), !.rows = rows]
    /\ UNCHANGED <<store, proc, hist, fragment>>

----------------------------------------------------------------------------
(* The stores the ranking is run on: the seeded courses, two professors, and up *)
(* to MaxSeedReviews reviewed sections                                          *)

MaxSeedReviews == 3

RankProfessors == << [prof_id |-> 1, name |-> "Lee"], [prof_id |-> 3, name |-> "Smith"] >>

\* the (course, professor) a seeded section is of, and the ratings of its review
SeedOfferings == << <<1, 3>>, <<1, 1>>, <<2, 3>>, <<4, 3>> >>
SeedRatings == << <<4, 4>>, <<3, 8>>, <<1, 1>>, <<4, 8>> >>

SeedKinds == (DOMAIN SeedOfferings) \X (DOMAIN SeedRatings)
KindLeq(a, b) == a[1] < b[1] \/ (a[1] = b[1] /\ a[2] <= b[2])

\* the seeded rows in one order only: the queries do not read the order of the rows
SeedLists ==
    UNION { { f \in [1..n -> SeedKinds] : \A i, j \in 1..n : i < j => KindLeq(f[i], f[j]) } :
            n \in 0..MaxSeedReviews }

InitRank ==
    /\ courses = SeedCourses
    /\ professors = RankProfessors
    /\ \E f \in SeedLists :
          /\ sections = [k \in DOMAIN f |->
                            [section_id |-> k, course_id |-> SeedOfferings[f[k][1]][1],
                             prof_id |-> SeedOfferings[f[k][1]][2], term |-> "Fall", year |-> 2023]]
          /\ reviews = [k \in DOMAIN f |->
                           [review_id |-> k, section_id |-> k, quality |-> SeedRatings[f[k][2]][1],
                            workload |-> SeedRatings[f[k][2]][2], text |-> 30]]
    /\ proc = [p \in Procs |-> IdleProc]
    /\ hist = InitHist
    /\ result = NoResult
    /\ fragment = NoFragment

NextRank == Rank \/ Rerun

SpecRank == InitRank /\ [][NextRank]_vars

----------------------------------------------------------------------------
(* The page and its button "Enhance with BruinWalk": the script runs the         *)
(* enhancement to its end, and st.rerun() then runs the page and its query anew  *)

\* the values the sliders are created with: Min Quality (tenths), Max Workload,
\* Min Reviews, Results to Show
DefaultMinQuality == 25
DefaultMaxWorkload == 8
DefaultMinReviews == 1
DefaultTopN == 20

\* enhancer.enhance_existing_courses(limit=30) has returned
PageRuns == W(Writer).mode = "enhance" /\ W(Writer).pc = "done"

\* st.rerun(): the page is run, for one of the areas, with the sliders as created
RankAfterRun ==
    /\ PageRuns
    /\ ~result.called
    /\ Len(courses) > 0
    /\ \E area \in OfferedAreas :
          \E rows \in MainQuery(area, DefaultMinReviews, DefaultMinQuality,
                                DefaultMaxWorkload, DefaultTopN) :
             result' = [called |-> TRUE, area |-> area, min_q |-> DefaultMinQuality,
                        max_w |-> DefaultMaxWorkload, min_reviews |-> DefaultMinReviews,
                        top_n |-> DefaultTopN, ranked |-> UseRanking(Len(reviews)),
                        rows |-> rows]
    /\ UNCHANGED <<store, proc, hist, fragment>>

NextApp ==
    \/ Next
    \/ RankAfterRun
    \/ (PageRuns /\ Rerun)

SpecApp == Init /\ [][NextApp]_vars

----------------------------------------------------------------------------
(* Properties of the ranking *)

Rows == result.rows

\* C7: in a returned list, a row that stands before another has a score at least
\* as high and, with equal scores, a quality at least as high (score and quality as
\* the rows report them).
C7_ScoreOrdering ==
    result.called =>
       \A i, j \in DOMAIN Rows :
          i < j => /\ Rows[i].score >= Rows[j].score
                   /\ (Rows[i].score = Rows[j].score => Rows[i].avg_quality >= Rows[j].avg_quality)

\* a ranked list whose first two rows have the same score and different qualities
C7_Witness ==
    /\ result.called /\ result.ranked /\ Len(Rows) >= 2
    /\ Rows[1].score = Rows[2].score
    /\ Rows[1].avg_quality > Rows[2].avg_quality

\* the reviews of the courses of an area
AreaReviews(area) ==
    { r \in DOMAIN reviews :
        \E s \in DOMAIN sections, c \in DOMAIN courses :
           /\ reviews[r].section_id = sections[s].section_id
           /\ sections[s].course_id = courses[c].course_id
           /\ courses[c].ge_area = area }

\* the distinct courses of an area, as rows of zeros
AreaCourseRows(area) ==
    { [dept |-> courses[i].dept, number |-> courses[i].number, title |-> courses[i].title,
       professor |-> "No reviews available", review_count |-> 0,
       avg_quality |-> 0, avg_workload |-> 0, score |-> 0] :
      i \in {j \in DOMAIN courses : courses[j].ge_area = area} }

SortedByDeptNumber(rows) ==
    \A i, j \in DOMAIN rows :
       i < j => (rows[i].dept < rows[j].dept
                 \/ (rows[i].dept = rows[j].dept /\ rows[i].number <= rows[j].number))

\* C8, as stated: when the requested area has no review, the list holds all the
\* distinct courses of the area, by department then number, with zeros, whether or
\* not other areas have reviews (read for a top_n that does not cut the list).
C8_AreaWithoutReviews ==
    (/\ result.called /\ AreaReviews(result.area) = {}
     /\ result.top_n >= Cardinality(AreaCourseRows(result.area))) =>
       /\ Range(Rows) = AreaCourseRows(result.area)
       /\ Len(Rows) = Cardinality(AreaCourseRows(result.area))
       /\ SortedByDeptNumber(Rows)

\* C8, amended: when the store has no review at all, the list holds the distinct
\* courses of the area, by department then number, with zeros, cut to the first
\* top_n; when the area has no review but the store has some, the list is empty.
C8_StoreWithoutReviews ==
    /\ (result.called /\ Len(reviews) = 0) =>
          /\ Range(Rows) \subseteq AreaCourseRows(result.area)
          /\ Len(Rows) = Min2(result.top_n, Cardinality(AreaCourseRows(result.area)))
          /\ \A i, j \in DOMAIN Rows : i # j => Rows[i] # Rows[j]
          /\ SortedByDeptNumber(Rows)
          /\ \A c \in AreaCourseRows(result.area) \ Range(Rows) :
                \A i \in DOMAIN Rows : ~(c.dept < Rows[i].dept
                                         \/ (c.dept = Rows[i].dept /\ c.number < Rows[i].number))
    /\ (result.called /\ Len(reviews) > 0 /\ AreaReviews(result.area) = {}) => Rows = << >>

\* a store without reviews, and the two courses of the area returned in order
C8_Witness ==
    /\ result.called /\ Len(reviews) = 0 /\ Len(Rows) = 2
    /\ Rows[1].number < Rows[2].number /\ Rows[1].score = 0

\* the groups of the requested area that pass the three thresholds
Qualifying ==
    { g \in GroupStats(result.area) :
        /\ g.review_count >= result.min_reviews
        /\ 10 * g.sum_quality >= result.min_q * g.review_count
        /\ g.sum_workload <= result.max_w * g.review_count }

\* the row is the row of the group
RowOfGroup(row, g) ==
    /\ row.dept = g.key.dept /\ row.number = g.key.number /\ row.title = g.key.title
    /\ row.professor = g.key.professor /\ row.review_count = g.review_count
    /\ row.avg_quality = Round2(g.sum_quality, g.review_count)
    /\ row.avg_workload = Round2(g.sum_workload, g.review_count)
    /\ row.score = Round2(ScoreNum(g), ScoreDen(g))

\* group g ranks strictly above the row
Outranks(g, row) ==
    \/ Round2(ScoreNum(g), ScoreDen(g)) > row.score
    \/ /\ Round2(ScoreNum(g), ScoreDen(g)) = row.score
       /\ Round2(g.sum_quality, g.review_count) > row.avg_quality

\* C9: the ranking query returns exactly the (course, professor) groups of the area
\* that pass the three thresholds, cut to the first top_n in ranking order: every
\* row is a qualifying group, none twice, and a qualifying group is left out only
\* when top_n rows are returned none of which it outranks.
C9_ExactlyQualifying ==
    (result.called /\ result.ranked) =>
       /\ \A i \in DOMAIN Rows : \E g \in Qualifying : RowOfGroup(Rows[i], g)
       /\ \A i, j \in DOMAIN Rows :
             i # j => ~(/\ Rows[i].dept = Rows[j].dept /\ Rows[i].number = Rows[j].number
                        /\ Rows[i].title = Rows[j].title /\ Rows[i].professor = Rows[j].professor)
       /\ Len(Rows) = Min2(result.top_n, Cardinality(Qualifying))
       /\ \A g \in Qualifying :
             (\A i \in DOMAIN Rows : ~RowOfGroup(Rows[i], g))
                => /\ Len(Rows) = result.top_n
                   /\ \A i \in DOMAIN Rows : ~Outranks(g, Rows[i])

\* three groups in the area: one fails a threshold, two pass, and top_n = 1 leaves one out
C9_Witness ==
    /\ result.called /\ result.ranked /\ result.top_n = 1 /\ Len(Rows) = 1
    /\ Cardinality(Qualifying) = 2
    /\ Cardinality(GroupStats(result.area)) = 3

\* C10: with the store and the filters unchanged, a second run of the query returns
\* the same ordered list with the same scores.
C10_Deterministic ==
    [][ (result.called /\ result'.called /\ store' = store
         /\ result'.area = result.area /\ result'.min_q = result.min_q
         /\ result'.max_w = result.max_w /\ result'.min_reviews = result.min_reviews
         /\ result'.top_n = result.top_n)
        => result'.rows = result.rows ]_vars

----------------------------------------------------------------------------
(* _parse_review_element of bruinwalk_scraper.py.  A text is a sequence of       *)
(* characters; a float read from a text is kept exactly, as num / 10^scale.      *)

Digits == <<"0", "1", "2", "3", "4", "5", "6", "7", "8", "9">>
UpperCase == <<"A", "B", "C", "D", "E", "F", "G", "H", "I", "J", "K", "L", "M", "N", "O", "P", "Q", "R", "S", "T", "U", "V", "W", "X", "Y", "Z">>
LowerCase == <<"a", "b", "c", "d", "e", "f", "g", "h", "i", "j", "k", "l", "m", "n", "o", "p", "q", "r", "s", "t", "u", "v", "w", "x", "y", "z">>
IsDigit(c) == \E k \in DOMAIN Digits : Digits[k] = c
DigitValue(c) == (CHOOSE k \in DOMAIN Digits : Digits[k] = c) - 1
IsUpper(c) == \E k \in DOMAIN UpperCase : UpperCase[k] = c
IsLower(c) == \E k \in DOMAIN LowerCase : LowerCase[k] = c
\* str.lower and str.upper on one character
Lower(c) == IF IsUpper(c) THEN LowerCase[CHOOSE k \in DOMAIN UpperCase : UpperCase[k] = c] ELSE c
Upper(c) == IF IsLower(c) THEN UpperCase[CHOOSE k \in DOMAIN LowerCase : LowerCase[k] = c] ELSE c
\* the classes \s and \w of re, and what . matches
IsSpace(c) == c \in {" ", "\t", "\n", "\r"}
IsWord(c) == IsDigit(c) \/ IsUpper(c) \/ IsLower(c) \/ c = "_"
IsDot(c) == c # "\n"

(* Program constants of the parser *)
\* re accepts a rating r with 0 <= r <= 5 and a workload w with 0 <= w <= 10
QualityRange == 5
WorkloadRange == 10
\* the text of a fragment is cut to this many characters
FragmentTextLimit == 500
\* a fragment without a rating is kept when its text is longer than this
MinTextLength == 10
\* the year of a fragment that names no quarter
DefaultYear == 2024
\* (\d{4})
YearDigits == 4

(* Pieces of the regular expressions.  A position is an index into the text; an *)
(* end is the position after the last character matched, 0 when nothing matches *)

SetMin(S) == CHOOSE x \in S : \A y \in S : x <= y

\* \d+ at position i, greedy
DigitsEnd(s, i) ==
    IF i > Len(s) \/ ~IsDigit(s[i]) THEN 0
    ELSE CHOOSE j \in (i + 1)..(Len(s) + 1) :
             /\ \A k \in i..(j - 1) : IsDigit(s[k])
             /\ j = Len(s) + 1 \/ ~IsDigit(s[j])

\* \s* at position i, greedy
SpacesEnd(s, i) ==
    CHOOSE j \in i..(Len(s) + 1) :
        /\ \A k \in i..(j - 1) : IsSpace(s[k])
        /\ j = Len(s) + 1 \/ ~IsSpace(s[j])

\* (?:\.\d+)? at position d, greedy: its end, 0 when it matches nothing
FractionEnd(s, d) == IF d <= Len(s) /\ s[d] = "." THEN DigitsEnd(s, d + 1) ELSE 0

\* the end of digits ending at d and a fraction ending at f
LongerEnd(d, f) == IF f # 0 THEN f ELSE d

\* \d+(?:\.\d+)? whose \d+ ends at d
NumberFrom(s, d) == IF d = 0 THEN 0 ELSE LongerEnd(d, FractionEnd(s, d))

\* \d+(?:\.\d+)? at position i, greedy; what follows it in every pattern cannot
\* match after a shorter number, so the greedy end is the only one
NumberEnd(s, i) == NumberFrom(s, DigitsEnd(s, i))

\* a literal word at position i under re.I; lit is in lower case
LiteralEnd(s, i, lit) ==
    IF i + Len(lit) - 1 <= Len(s) /\ \A k \in 1..Len(lit) : Lower(s[i + k - 1]) = lit[k]
    THEN i + Len(lit)
    ELSE 0

\* \s*w1\s*w2... at position i
RECURSIVE WordsEnd(_, _, _)
WordsNext(s, j, words) == IF j = 0 THEN 0 ELSE WordsEnd(s, j, words)
WordsEnd(s, i, words) ==
    IF words = <<>> THEN i
    ELSE WordsNext(s, LiteralEnd(s, SpacesEnd(s, i), Head(words)), Tail(words))

\* .*?(?:a|b) at position i: the positions, on the same line, where one of the words starts
LaterWords(s, i, alts) ==
    {k \in i..Len(s) : /\ \A m \in i..(k - 1) : IsDot(s[m])
                       /\ \E a \in alts : LiteralEnd(s, k, a) # 0}

\* the end of the word of alts that starts at position k
WordStop(s, k, alts) == LiteralEnd(s, k, CHOOSE w \in alts : LiteralEnd(s, k, w) # 0)

\* .*? is lazy: the match ends with the first of the positions ks
LaterStop(s, ks, alts) == IF ks = {} THEN 0 ELSE WordStop(s, SetMin(ks), alts)

\* no match
NoMatch == <<>>

\* a match: group 1 at from..end-1, the whole match ending before stop
Match(from, end, stop) == IF stop = 0 THEN NoMatch ELSE <<from, end, stop>>

\* The candidate patterns.  "before": (number)\s*w1\s*w2..., then, if later is not
\* empty, .*?(?:one of later).  "after": label:?\s*(number)
QualityPatterns ==
    << [shape |-> "before", words |-> <<<<"/">>, <<"5">>>>, later |-> {}],
       [shape |-> "before", words |-> <<<<"o", "u", "t">>, <<"o", "f">>, <<"5">>>>, later |-> {}],
       [shape |-> "after", label |-> <<"r", "a", "t", "i", "n", "g">>],
       [shape |-> "after", label |-> <<"q", "u", "a", "l", "i", "t", "y">>] >>

WorkloadPatterns ==
    << [shape |-> "after", label |-> <<"w", "o", "r", "k", "l", "o", "a", "d">>],
       [shape |-> "after", label |-> <<"d", "i", "f", "f", "i", "c", "u", "l", "t", "y">>],
       [shape |-> "before", words |-> <<<<"/">>, <<"1", "0">>>>,
        later |-> {<<"w", "o", "r", "k", "l", "o", "a", "d">>, <<"d", "i", "f", "f", "i", "c", "u", "l", "t", "y">>}] >>

\* a "before" pattern whose words end at t: where the whole match ends
BeforeStop(pat, s, t) ==
    IF t = 0 THEN 0
    ELSE IF pat.later = {} THEN t
    ELSE LaterStop(s, LaterWords(s, t, pat.later), pat.later)

\* a "before" pattern whose number is at i..e-1
BeforeFrom(pat, s, i, e) ==
    IF e = 0 THEN NoMatch ELSE Match(i, e, BeforeStop(pat, s, WordsEnd(s, e, pat.words)))

\* :?\s* after a label ending at l: where the number has to start
LabelEnd(s, l) ==
    IF l = 0 THEN 0
    ELSE IF l <= Len(s) /\ s[l] = ":" THEN SpacesEnd(s, l + 1)
    ELSE SpacesEnd(s, l)

\* an "after" pattern whose number has to start at b
AfterNumber(b, e) == Match(b, e, e)
AfterFrom(s, b) == IF b = 0 THEN NoMatch ELSE AfterNumber(b, NumberEnd(s, b))

\* pattern pat matched at position i, or NoMatch
GroupAt(pat, s, i) ==
    IF pat.shape = "before" THEN BeforeFrom(pat, s, i, NumberEnd(s, i))
    ELSE AfterFrom(s, LabelEnd(s, LiteralEnd(s, i, pat.label)))

\* re.search(pattern, text_content, re.I): the match at the leftmost position only
Leftmost(pat, s, hits) == IF hits = {} THEN NoMatch ELSE GroupAt(pat, s, SetMin(hits))
Search(pat, s) == Leftmost(pat, s, {i \in 1..Len(s) : GroupAt(pat, s, i) # NoMatch})

RECURSIVE Pow10(_)
Pow10(n) == IF n = 0 THEN 1 ELSE 10 * Pow10(n - 1)

\* the number the digits s[a..b-1] write
RECURSIVE DigitsValue(_, _, _)
DigitsValue(s, a, b) ==
    IF b <= a THEN 0 ELSE 10 * DigitsValue(s, a, b - 1) + DigitValue(s[b - 1])

\* float of a group digits[.digits] whose \d+ ends at d
FloatFrom(s, g, d) ==
    IF d = g[2] THEN [num |-> DigitsValue(s, g[1], d), scale |-> 0]
    ELSE [num |-> DigitsValue(s, g[1], d) * Pow10(g[2] - d - 1) + DigitsValue(s, d + 1, g[2]),
          scale |-> g[2] - d - 1]

\* float(match.group(1))
Float(s, g) == FloatFrom(s, g, DigitsEnd(s, g[1]))

\* 0.0, the value of a signal that was not extracted
Absent == [num |-> 0, scale |-> 0]

\* 0 <= v <= upper
InRangeAny(v, upper) == TRUE
InRange(v, upper) == 0 <= v.num /\ v.num <= upper * Pow10(v.scale)

\* the loop over the candidate patterns: the first pattern whose leftmost match is
\* in range gives the value; a pattern whose leftmost match is out of range is passed
RECURSIVE Extract(_, _, _)
Checked(rest, s, upper, v) == IF InRange(v, upper) THEN v ELSE Extract(rest, s, upper)
Accept(rest, s, upper, g) ==
    IF g = NoMatch THEN Extract(rest, s, upper) ELSE Checked(rest, s, upper, Float(s, g))
Extract(patterns, s, upper) ==
    IF patterns = <<>> THEN Absent
    ELSE Accept(Tail(patterns), s, upper, Search(Head(patterns), s))

\* (fall|winter|spring|summer)\s*(\d{4}) under re.I
Seasons == {<<"f", "a", "l", "l">>, <<"w", "i", "n", "t", "e", "r">>, <<"s", "p", "r", "i", "n", "g">>, <<"s", "u", "m", "m", "e", "r">>}

\* (fall|winter|spring|summer) at position i; no two of the words start alike
SeasonEnd(s, i) == SetMax({LiteralEnd(s, i, w) : w \in Seasons})

\* (\d{4}) at position y
YearAt(s, y) == y + YearDigits - 1 <= Len(s) /\ \A k \in y..(y + YearDigits - 1) : IsDigit(s[k])

\* the quarter pattern at position i: <<from, end of the season, start of the year>>
QuarterYear(s, i, l, y) == IF YearAt(s, y) THEN <<i, l, y>> ELSE NoMatch
QuarterFrom(s, i, l) == IF l = 0 THEN NoMatch ELSE QuarterYear(s, i, l, SpacesEnd(s, l))
QuarterAt(s, i) == QuarterFrom(s, i, SeasonEnd(s, i))

\* re.search(quarter_pattern, text_content, re.I)
LeftmostQuarter(s, hits) == IF hits = {} THEN NoMatch ELSE QuarterAt(s, SetMin(hits))
SearchQuarter(s) == LeftmostQuarter(s, {i \in 1..Len(s) : QuarterAt(s, i) # NoMatch})

\* str.title() of one word
Title(w) == [k \in 1..Len(w) |-> IF k = 1 THEN Upper(w[k]) ELSE Lower(w[k])]

\* \b at position i: of s[i-1] and s[i] exactly one is a word character
Boundary(s, i) == (i > 1 /\ IsWord(s[i - 1])) # (i <= Len(s) /\ IsWord(s[i]))

\* \b([A-F][+-]?|P|NP)\b at position i, case sensitive: the end of the group, or 0.
\* The alternatives are tried in order, the sign greedily and then without it.
GradeLetters == {"A", "B", "C", "D", "E", "F"}
GradeSigns == {"+", "-"}
GradeEnd(s, i) ==
    IF i > Len(s) \/ ~Boundary(s, i) THEN 0
    ELSE IF s[i] \in GradeLetters /\ i < Len(s) /\ s[i + 1] \in GradeSigns /\ Boundary(s, i + 2)
         THEN i + 2
    ELSE IF s[i] \in GradeLetters \cup {"P"} /\ Boundary(s, i + 1) THEN i + 1
    ELSE IF i < Len(s) /\ s[i] = "N" /\ s[i + 1] = "P" /\ Boundary(s, i + 2) THEN i + 2
    ELSE 0

\* re.search(grade_pattern, text_content).group(1), the empty text when nothing matches
GradeGroup(s, i) == SubSeq(s, i, GradeEnd(s, i) - 1)
LeftmostGrade(s, hits) == IF hits = {} THEN <<>> ELSE GradeGroup(s, SetMin(hits))
Grade(s) == LeftmostGrade(s, {i \in 1..Len(s) : GradeEnd(s, i) # 0})

\* str.strip()
StripTo(s, inked) == IF inked = {} THEN <<>> ELSE SubSeq(s, SetMin(inked), SetMax(inked))
Strip(s) == StripTo(s, {k \in 1..Len(s) : ~IsSpace(s[k])})

\* s[:n]
Truncate(s, n) == SubSeq(s, 1, Min2(Len(s), n))

\* elem.get_text(): the text nodes of the element, one after the other
RECURSIVE GetText(_)
GetText(strings) == IF strings = <<>> THEN <<>> ELSE Head(strings) \o GetText(Tail(strings))

\* elem.find(string=True) or elem, then get_text(): the first text node, the whole
\* (empty) text when the element has none
FirstText(strings) == IF strings = <<>> THEN GetText(strings) ELSE Head(strings)

\* the acceptance rule at the end of _parse_review_element
KeptAlways(review_data) == TRUE
Kept(review_data) == review_data.quality.num > 0 \/ Len(review_data.text) > MinTextLength

\* quarter_match.group(1).title() and int(quarter_match.group(2)), the defaults
\* when the pattern does not match
Quarter(s, q) == IF q = NoMatch THEN <<>> ELSE Title(SubSeq(s, q[1], q[2] - 1))
Year(s, q) == IF q = NoMatch THEN DefaultYear ELSE DigitsValue(s, q[3], q[3] + YearDigits)

\* review_data as _parse_review_element fills it in (dept, number and would_recommend
\* are carried along and never read again)
Filled(professor, text, text_content, q) ==
    [professor |-> professor,
     quality |-> Extract(QualityPatterns, text_content, QualityRange),
     workload |-> Extract(WorkloadPatterns, text_content, WorkloadRange),
     text |-> text,
     quarter |-> Quarter(text_content, q),
     year |-> Year(text_content, q),
     grade |-> Grade(text_content)]
ReviewData(strings, professor) ==
    Filled(professor, Truncate(Strip(FirstText(strings)), FragmentTextLimit),
           GetText(strings), SearchQuarter(GetText(strings)))

\* return review_data, or None (the empty sequence)
ReturnKept(review_data) == IF Kept(review_data) THEN <<review_data>> ELSE <<>>

\* _parse_review_element(elem, professor, dept, number)
ParseReviewElement(strings, professor) == ReturnKept(ReviewData(strings, professor))

(* The fragments the parser is run on *)

\* the most text nodes one fragment has
MaxNodes == 2

\* "Great class! Rating: 4.5, Workload: 3 out of 10, taken Fall 2023, got A-"
ExampleText ==
    <<"G", "r", "e", "a", "t", " ", "c", "l", "a", "s", "s", "!">> \o
    <<" ", "R", "a", "t", "i", "n", "g", ":", " ", "4", ".", "5">> \o
    <<",", " ", "W", "o", "r", "k", "l", "o", "a", "d", ":", " ">> \o
    <<"3", " ", "o", "u", "t", " ", "o", "f", " ", "1", "0", ",">> \o
    <<" ", "t", "a", "k", "e", "n", " ", "F", "a", "l", "l", " ">> \o
    <<"2", "0", "2", "3", ",", " ", "g", "o", "t", " ", "A", "-">>
\* the text nodes the fragments of a page are built from
TextNodes ==
    { \* 'ok'
      <<"o", "k">>,
      \* 'Great class!'
      <<"G", "r", "e", "a", "t", " ", "c", "l", "a", "s", "s", "!">>,
      \* 'Rating: '
      <<"R", "a", "t", "i", "n", "g", ":", " ">>,
      \* '4.5/5'
      <<"4", ".", "5", "/", "5">>,
      \* '12/5 '
      <<"1", "2", "/", "5", " ">>,
      \* '3 out of 5'
      <<"3", " ", "o", "u", "t", " ", "o", "f", " ", "5">>,
      \* 'Workload: '
      <<"W", "o", "r", "k", "l", "o", "a", "d", ":", " ">>,
      \* '7/10 difficulty'
      <<"7", "/", "1", "0", " ", "d", "i", "f", "f", "i", "c", "u", "l", "t", "y">>,
      \* ' Fall 2023 '
      <<" ", "F", "a", "l", "l", " ", "2", "0", "2", "3", " ">>,
      \* 'A-'
      <<"A", "-">>,
      ExampleText }

\* a fragment is the sequence of its text nodes
Fragments == UNION {[1..n -> TextNodes] : n \in 0..MaxNodes}

InitParse ==
    /\ courses = <<>>
    /\ professors = <<>>
    /\ sections = <<>>
    /\ reviews = <<>>
    /\ proc = [p \in Procs |-> IdleProc]
    /\ hist = InitHist
    /\ result = NoResult
    /\ \E strings \in Fragments, professor \in ProfNames :
           fragment = [parsed |-> FALSE, strings |-> strings, professor |-> professor]

\* the fragment once parsed; review_data is the local the parser filled in
Parsed(f, review_data) ==
    [parsed |-> TRUE, strings |-> f.strings, professor |-> f.professor,
     review_data |-> review_data, returned |-> ReturnKept(review_data)]

\* one call of _parse_review_element
Parse ==
    /\ ~fragment.parsed
    /\ "strings" \in DOMAIN fragment
    /\ fragment' = Parsed(fragment, ReviewData(fragment.strings, fragment.professor))
    /\ UNCHANGED <<store, proc, hist, result>>

NextParse == Parse

SpecParse == InitParse /\ [][NextParse]_vars

----------------------------------------------------------------------------
(* Properties of the parser *)

\* text_content of the fragment being parsed
TextContent == GetText(fragment.strings)

\* C11: the parser returns a record exactly when the extracted quality is above 0
\* or the stripped, truncated text is longer than 10 characters, and the record is
\* the one it filled in
C11_KeptIffSignal ==
    fragment.parsed =>
        LET quality == Extract(QualityPatterns, TextContent, QualityRange)
            text == Truncate(Strip(FirstText(fragment.strings)), FragmentTextLimit)
        IN  /\ (fragment.returned # <<>>) <=> (quality.num > 0 \/ Len(text) > 10)
            /\ fragment.returned # <<>> => fragment.returned = <<fragment.review_data>>

\* a fragment kept for its rating alone, its text being short
C11_Witness ==
    /\ fragment.parsed
    /\ fragment.returned # <<>>
    /\ fragment.review_data.quality.num > 0
    /\ Len(fragment.review_data.text) <= 10

\* the first matches of the patterns of one kind that lie outside the range
OutOfRange(patterns, upper) ==
    {n \in DOMAIN patterns :
        LET g == Search(patterns[n], TextContent)
        IN  g # NoMatch /\ Float(TextContent, g).num > upper * Pow10(Float(TextContent, g).scale)}

\* C12: the quality the parser leaves in the record is 0 or lies in [0,5], the
\* workload is 0 or lies in [0,10]
C12_SignalsInRange ==
    fragment.parsed =>
        LET q == fragment.review_data.quality
            w == fragment.review_data.workload
        IN  /\ 0 <= q.num /\ q.num <= 5 * Pow10(q.scale)
            /\ 0 <= w.num /\ w.num <= 10 * Pow10(w.scale)

\* a text in which a quality pattern and a workload pattern match a value out of range
C12_Witness ==
    /\ fragment.parsed
    /\ OutOfRange(QualityPatterns, QualityRange) # {}
    /\ OutOfRange(WorkloadPatterns, WorkloadRange) # {}

\* C13: the example text yields quality 4.5, workload 3.0, term Fall, year 2023 and
\* grade A-
C13_ExampleYields ==
    (fragment.parsed /\ fragment.strings = <<ExampleText>>) =>
        /\ fragment.review_data.quality = [num |-> 45, scale |-> 1]
        /\ fragment.review_data.workload = [num |-> 3, scale |-> 0]
        /\ fragment.review_data.quarter = <<"F", "a", "l", "l">>
        /\ fragment.review_data.year = 2023
        /\ fragment.review_data.grade = <<"A", "-">>

\* the matches of pattern pat in text s that re.finditer would list: the leftmost
\* one, and the leftmost one after it
Matches(pat, s) ==
    LET first == Search(pat, s)
        rest == IF first = NoMatch THEN {}
                ELSE {i \in first[3]..Len(s) : GroupAt(pat, s, i) # NoMatch}
    IN  (IF first = NoMatch THEN {} ELSE {first})
        \cup (IF rest = {} THEN {}
              ELSE {GroupAt(pat, s, CHOOSE i \in rest : \A j \in rest : i <= j)})

\* some match of some pattern is a value above 0 within the range
HasValidMatch(patterns, upper) ==
    \E n \in DOMAIN patterns : \E g \in Matches(patterns[n], TextContent) :
        /\ Float(TextContent, g).num > 0
        /\ InRange(Float(TextContent, g), upper)

\* C14: a text holding a match of a candidate pattern that passes the range check
\* never yields an absent signal
C14_ValidMatchIsFound ==
    fragment.parsed =>
        /\ HasValidMatch(QualityPatterns, QualityRange) => fragment.review_data.quality # Absent
        /\ HasValidMatch(WorkloadPatterns, WorkloadRange) => fragment.review_data.workload # Absent

----------------------------------------------------------------------------
(* Properties of the failure handling and of the effect on the store *)

\* the table holds a row with this id
HasRow(kind, id) ==
    CASE kind = "course" -> id \in CourseIds
      [] kind = "prof" -> id \in ProfIds
      [] kind = "section" -> id \in SectionIds
      [] kind = "review" -> id \in ReviewIds

\* C15: a store write that raises writes nothing and undoes nothing: the rows
\* written before it stay; it ends the call, which returns normally; until the call
\* has returned no row is written, and the loop of the run then goes to the next
\* course of the list (or ends the run after the last one).
C15_FailureIsContained ==
    [][ LET w == proc[Writer]
            v == proc'[Writer]
        IN  /\ (~w.raised /\ v.raised) => (store' = store /\ v.pc = "return")
            /\ w.raised =>
                  /\ store' = store
                  /\ \A i \in DOMAIN Allocs : Allocs[i].ok => HasRow(Allocs[i].kind, Allocs[i].id)
                  /\ w.mode = "enhance" =>
                        /\ v.idx = w.idx + 1
                        /\ v.pc = IF w.idx < Len(w.courses_df) THEN "fetch" ELSE "done"
      ]_vars

\* the insert of the first course's review raised after its section was written,
\* and the run is at its second course
C15_Witness ==
    /\ W(Writer).mode = "enhance" /\ W(Writer).pc = "fetch" /\ W(Writer).idx = 2
    /\ Len(Allocs) >= 2
    /\ ~Allocs[Len(Allocs)].ok /\ Allocs[Len(Allocs)].kind = "review"
    /\ Allocs[Len(Allocs) - 1].ok /\ Allocs[Len(Allocs) - 1].kind = "section"
    /\ HasRow("section", Allocs[Len(Allocs) - 1].id)

\* C16: a course whose page is not found, cannot be fetched, cannot be parsed or
\* yields no kept review at all causes no write and no call of the save, is not
\* counted as enhanced, and the run goes on with the next course of the list.
C16_FailedFetchSkipsCourse ==
    [][ LET w == proc[Writer]
            v == proc'[Writer]
        IN  /\ (w.pc = "fetch" /\ v.pc = "no_data") =>
                  (v.failure \in FetchFailures /\ store' = store /\ hist' = hist)
            /\ w.pc = "no_data" =>
                  /\ w.failure \in {"not_found", "request_error", "parse_error", "no_reviews"}
                  /\ store' = store
                  /\ hist'.saves = hist.saves
                  /\ v.enhanced_count = w.enhanced_count
                  /\ v.idx = w.idx + 1
                  /\ v.pc = IF w.idx < Len(w.courses_df) THEN "fetch" ELSE "done"
      ]_vars

\* a run over two courses has ended: one course was skipped, the other saved
C16_Witness ==
    /\ W(Writer).mode = "enhance" /\ W(Writer).pc = "done"
    /\ Len(W(Writer).courses_df) = 2
    /\ hist.saves[Writer] = 1
    /\ W(Writer).enhanced_count = 1

\* C17: a call of the save that no insert fails, for a page of n kept reviews, adds
\* exactly n section rows and n review rows, the k-th new review linked to the k-th
\* new section, whose id no other section has and no other review refers to; this
\* holds as well when the store already holds the sections of the same page.
C17_OneSectionPerReview ==
    (W(Writer).pc = "return" /\ ~W(Writer).raised) =>
        LET n == Len(W(Writer).course_data.reviews)
            s0 == hist.call[Writer].sections
            r0 == hist.call[Writer].reviews
        IN  /\ Len(sections) = s0 + n
            /\ Len(reviews) = r0 + n
            /\ \A k \in 1..n :
                  /\ reviews[r0 + k].section_id = sections[s0 + k].section_id
                  /\ sections[s0 + k].course_id = W(Writer).course_id
                  /\ \A j \in DOMAIN sections :
                        j # s0 + k => sections[j].section_id # sections[s0 + k].section_id
                  /\ \A j \in DOMAIN reviews :
                        j # r0 + k => reviews[j].section_id # sections[s0 + k].section_id

\* the same page has been saved twice without a failure: its section is there twice
C17_Witness ==
    /\ W(Writer).pc = "return" /\ ~W(Writer).raised
    /\ hist.saves[Writer] = 2 /\ hist.persisted[Writer] = 1
    /\ \E i, j \in DOMAIN sections :
          /\ i < j /\ hist.call[Writer].sections < j
          /\ sections[i].section_id # sections[j].section_id
          /\ sections[i].course_id = sections[j].course_id
          /\ sections[i].prof_id = sections[j].prof_id
          /\ sections[i].term = sections[j].term /\ sections[i].year = sections[j].year

\* the integer part of a non-negative value kept in tenths, put into lo..hi
Clamped(t, lo, hi) ==
    IF t \div 10 < lo THEN lo ELSE IF t \div 10 > hi THEN hi ELSE t \div 10

\* C19: a kept review whose quality is 0 (not extracted) is stored with quality 1,
\* one whose workload is 0 with workload 5; any other value is stored as its integer
\* part, put into 1..5 for quality and into 1..10 for workload.
C19_StoredDefaults ==
    /\ Passed(Writer) <= Len(reviews)
    /\ \A k \in 1..Passed(Writer) :
          LET r == W(Writer).course_data.reviews[k]
              row == RowOf(Writer, k)
          IN  /\ row.quality = IF r.quality = 0 THEN 1 ELSE Clamped(r.quality, 1, 5)
              /\ row.workload = IF r.workload = 0 THEN 5 ELSE Clamped(r.workload, 1, 10)

\* a review with nothing extracted and one with quality 4.5 and workload 3.0 have
\* been stored
C19_Witness ==
    /\ Passed(Writer) = 2
    /\ \E k, l \in 1..Passed(Writer) :
          /\ W(Writer).course_data.reviews[k].quality = 0
          /\ W(Writer).course_data.reviews[k].workload = 0
          /\ RowOf(Writer, k).quality = 1 /\ RowOf(Writer, k).workload = 5
          /\ W(Writer).course_data.reviews[l].quality = 45
          /\ RowOf(Writer, l).quality = 4 /\ RowOf(Writer, l).workload = 3

\* every row of table s is a row of t, at its place and with its attributes
RowsKept(s, t) == Len(s) <= Len(t) /\ \A i \in DOMAIN s : t[i] = s[i]

\* C18: no step of the ingestion changes or removes a row the store holds (it only
\* appends rows), and a run of the ranking leaves the store as it is.
C18_AdditiveOnly ==
    [][ /\ RowsKept(courses, courses')
        /\ RowsKept(professors, professors')
        /\ RowsKept(sections, sections')
        /\ RowsKept(reviews, reviews')
        /\ result' # result => store' = store
      ]_vars

\* the run has added a review to a store that held one, and the page has ranked
C18_Witness ==
    /\ result.called /\ result.ranked /\ Len(result.rows) >= 1
    /\ W(Writer).pc = "done"
    /\ hist.persisted[Writer] >= 1
    /\ Len(reviews) >= 2

====
